---- MODULE Spec2Model ----
(***************************************************************************)
(* Lightborne: the player kill / respawn pipeline (src/player/kill.rs) and *)
(* the crystal-shard temporary colour unlocks (src/level/shard.rs), as     *)
(* Bevy systems running in the Main schedule of one frame after another:   *)
(*   PreUpdate -> StateTransition -> FixedUpdate (0..n ticks) -> Update.   *)
(* State<GameState> is cur_game_state, NextState<GameState> is             *)
(* next_game_state; a NextState set in one frame is applied by the         *)
(* StateTransition schedule of the next frame.                             *)
(***************************************************************************)
EXTENDS Integers, Sequences, FiniteSets

(* ------------------------------ bounds -------------------------------- *)

\* FixedUpdate ticks the fixed main loop may run within one frame.
MaxFixedTicks == 2

\* Camera transitions in flight at once (kill signals are not raised beyond it).
MaxTransitions == 3

\* KillPlayerEvents not yet read by the on_event run condition.
MaxKillEvents == 2

(* ---------------------------- program data ---------------------------- *)

NoColor == "None"

\* Two of the four LightColor variants; every system treats a colour on its own.
LightColor == {"Blue", "Green"}

\* The crystal shards of the world, each named after its light_color: one
\* green shard, which Level_A and Level_C do not allow by themselves and
\* Level_B does.
CrystalShards == {"Green"}

light_color(shard) == shard

HurtMarkers == {"spike", "lava"}

LevelIids == {"Level_A", "Level_B", "Level_C"}

\* The author-defined allowed colours of each level.
BaselineAllowed(level_iid) ==
    IF level_iid = "Level_B"
    THEN [c \in LightColor |-> c = "Green"]
    ELSE [c \in LightColor |-> c = "Blue"]

LevelBox(level_iid) ==
    IF level_iid = "Level_A"
    THEN [min_x |-> 0, max_x |-> 90, min_y |-> -60, max_y |-> 0]
    ELSE [min_x |-> 200, max_x |-> 300, min_y |-> -60, max_y |-> 0]

\* The (StartFlag, EntityInstance) pairs of the world: only Level_A has one.
StartFlags == {[level_iid |-> "Level_A", world_x |-> 100, world_y |-> 50]}

LYRA_RESPAWN_EPSILON == 2

InitialTranslation == [x |-> 0, y |-> 0]

FixedSystems ==
    {"kill_player_on_hurt_intersection", "on_player_intersect_shard", "start_kill_animation"}

ResetSystems == {"reset_shards", "reset_player_on_level_switch", "reset_player_on_kill"}

(* ------------------------------- state -------------------------------- *)

VARIABLES
    schedule,         \* the schedule of the frame that is running
    fixed_ran,        \* FixedUpdate systems that ran in the tick under way
    fixed_ticks,      \* FixedUpdate ticks completed in this frame
    update_ran,       \* Update systems that ran in this frame
    reset_run,        \* LevelSystems::Reset's run condition in this frame
    cur_game_state,   \* State<GameState>
    next_game_state,  \* NextState<GameState>
    cur_anim_state,   \* State<AnimationState>
    next_anim_state,  \* NextState<AnimationState>
    kill_events,      \* KillPlayerEvents unread by on_event::<KillPlayerEvent>
    transitions,      \* CameraTransitionEvents the transition driver holds
    ev_reset_cond,    \* ResetLevel events unread by the Reset set's condition
    ev_reset_kill,    \* ResetLevel::Respawn events unread by reset_player_on_kill
    current_level,    \* Res<CurrentLevel>
    shard_mods,       \* CrystalShardMods
    visibility,       \* Visibility of each crystal shard
    current_color,    \* PlayerLightInventory.current_color
    translation,      \* the player's Transform.translation
    player_found,     \* get_single() on the player query of the system that ran last
    rapier_found,     \* get_single() on its RapierContext query
    camera_moves,     \* CameraMoveEvents sent in this frame
    panicked,         \* the process stopped on the panic of kill.rs:119
    fresh_kill,       \* history: an unread kill event is newer than the last return to Playing
    rolled_back,      \* history: colours reset_shards revoked in this frame
    old_color,        \* old_color of reset_player_on_level_switch in this frame
    kill_outcome      \* history: what the last run of start_kill_animation did

vars ==
    <<schedule, fixed_ran, fixed_ticks, update_ran, reset_run, cur_game_state,
      next_game_state, cur_anim_state, next_anim_state, kill_events, transitions,
      ev_reset_cond, ev_reset_kill, current_level, shard_mods, visibility,
      current_color, translation, player_found, rapier_found, camera_moves,
      panicked, fresh_kill, rolled_back, old_color, kill_outcome>>

frameVars == <<schedule, fixed_ran, fixed_ticks, update_ran, reset_run>>

stateVars == <<cur_game_state, next_game_state, cur_anim_state, next_anim_state>>

levelVars == <<current_level, shard_mods, visibility>>

playerVars == <<current_color, translation, camera_moves>>

\* A system that makes no query leaves the query results at their default.
NoQuery == player_found' = TRUE /\ rapier_found' = TRUE

\* The RapierContext query, then the player query if the first resolved
\* (shard.rs:127-132, kill.rs:151-156).
QueryRapierAndPlayer ==
    /\ rapier_found' \in BOOLEAN
    /\ player_found' \in (IF rapier_found' THEN BOOLEAN ELSE {TRUE})

\* The player query alone (kill.rs:92, kill.rs:127).
QueryPlayer == player_found' \in BOOLEAN /\ rapier_found' = TRUE

Init ==
    /\ schedule = "PreUpdate"
    /\ fixed_ran = {}
    /\ fixed_ticks = 0
    /\ update_ran = {}
    /\ reset_run = "pending"
    /\ cur_game_state = "Playing"
    /\ next_game_state = "Unchanged"
    /\ cur_anim_state = "None"
    /\ next_anim_state = "Unchanged"
    /\ kill_events = 0
    /\ transitions = <<>>
    /\ ev_reset_cond = {}
    /\ ev_reset_kill = <<>>
    /\ current_level = [level_iid |-> "Level_A",
                        allowed_colors |-> BaselineAllowed("Level_A"),
                        level_box |-> LevelBox("Level_A")]
    /\ shard_mods = [c \in LightColor |-> FALSE]
    /\ visibility = [s \in CrystalShards |-> "Visible"]
    /\ current_color = NoColor
    /\ translation = InitialTranslation
    /\ player_found = TRUE
    /\ rapier_found = TRUE
    /\ camera_moves = <<>>
    /\ panicked = FALSE
    /\ fresh_kill = FALSE
    /\ rolled_back = {}
    /\ old_color = NoColor
    /\ kill_outcome = "none"

(* ------------------------------ helpers ------------------------------- *)

\* LevelSystems::Simulation runs while the game is being played.
SimulationRuns == cur_game_state = "Playing"

\* A source of kill signals may raise one more (the model's caps).
CanRaiseKill == kill_events < MaxKillEvents /\ Len(transitions) < MaxTransitions

\* An event is held in the buffer it was sent to (age 0), then in the older
\* buffer (age 1), and is dropped when the buffers are swapped once more. The
\* reader of reset_player_on_kill looks for ResetLevel::Respawn alone
\* (kill.rs:89): of its unread events only those are kept, oldest first.
SendResetLevel(reason) ==
    /\ ev_reset_cond' = ev_reset_cond \cup {reason}
    /\ ev_reset_kill' =
         IF reason = "Respawn"
         THEN Append(ev_reset_kill, [reason |-> reason, age |-> 0])
         ELSE ev_reset_kill

\* The buffers of Events<ResetLevel> are swapped at the start of a frame that
\* follows a FixedUpdate tick.
EventUpdate(events, ticks) ==
    IF ticks = 0 THEN events
    ELSE LET kept == SelectSeq(events, LAMBDA e : e.age = 0)
         IN  [i \in DOMAIN kept |-> [kept[i] EXCEPT !.age = 1]]

\* One FixedUpdate tick went by for the transitions the driver is running.
TickElapse(ts) ==
    [i \in DOMAIN ts |->
        IF ts[i].stage = "running" THEN [ts[i] EXCEPT !.stage = "elapsed"] ELSE ts[i]]

\* The driver picks up, at the end of the frame, the transitions requested in it.
PickUp(ts) ==
    [i \in DOMAIN ts |->
        IF ts[i].stage = "requested" THEN [ts[i] EXCEPT !.stage = "running"] ELSE ts[i]]

\* The system `name` runs in the FixedUpdate tick under way and leaves `ts` as
\* the transitions; the tick ends once each system of the schedule has run.
\* The schedule declares no order between the three systems. The shard system
\* shares no state with the other two, so it is run first; the hazard check and
\* start_kill_animation, which share the kill events, run in either order.
FixedStep(name, ts) ==
    /\ ~panicked
    /\ schedule = "FixedUpdate"
    /\ name \notin fixed_ran
    /\ name # "on_player_intersect_shard" => "on_player_intersect_shard" \in fixed_ran
    /\ fixed_ticks < MaxFixedTicks
    /\ LET ran == fixed_ran \cup {name} IN
         IF ran = FixedSystems
         THEN /\ fixed_ran' = {}
              /\ fixed_ticks' = fixed_ticks + 1
              /\ transitions' = TickElapse(ts)
         ELSE /\ fixed_ran' = ran
              /\ fixed_ticks' = fixed_ticks
              /\ transitions' = ts
    /\ UNCHANGED <<schedule, update_ran, reset_run>>

\* The system `name` of the Update schedule runs, once per frame.
UpdateStep(name) ==
    /\ ~panicked
    /\ schedule = "Update"
    /\ name \notin update_ran
    /\ update_ran' = update_ran \cup {name}
    /\ UNCHANGED <<schedule, fixed_ran, fixed_ticks>>

\* A system of LevelSystems::Reset runs: the set's condition let the set run.
ResetStep(name) ==
    /\ reset_run = "run"
    /\ UpdateStep(name)
    /\ UNCHANGED reset_run

(* ----------------------- PreUpdate: the world moves -------------------- *)

\* The level loader replaces CurrentLevel and broadcasts ResetLevel::Switching.
LevelSwitch ==
    /\ ~panicked
    /\ schedule = "PreUpdate"
    /\ cur_game_state = "Playing"
    /\ "Switching" \notin ev_reset_cond
    /\ \E iid \in LevelIids \ {current_level.level_iid} :
         current_level' = [level_iid |-> iid,
                           allowed_colors |-> BaselineAllowed(iid),
                           level_box |-> LevelBox(iid)]
    /\ SendResetLevel("Switching")
    /\ NoQuery
    /\ UNCHANGED <<frameVars, stateVars, kill_events, transitions, shard_mods,
                   visibility, playerVars, panicked, fresh_kill, rolled_back,
                   old_color, kill_outcome>>

\* The player equips a colour the level allows.
SelectColor ==
    /\ ~panicked
    /\ schedule = "PreUpdate"
    /\ cur_game_state = "Playing"
    /\ \E c \in LightColor :
         /\ current_level.allowed_colors[c]
         /\ current_color # c
         /\ current_color' = c
    /\ NoQuery
    /\ UNCHANGED <<frameVars, stateVars, kill_events, transitions, ev_reset_cond,
                   ev_reset_kill, levelVars, translation, camera_moves, panicked,
                   fresh_kill, rolled_back, old_color, kill_outcome>>

(* -------------------------- StateTransition --------------------------- *)

ApplyNextState(cur, next) == IF next = "Unchanged" THEN cur ELSE next

StateTransition ==
    /\ ~panicked
    /\ schedule = "PreUpdate"
    /\ schedule' = "FixedUpdate"
    /\ cur_game_state' = ApplyNextState(cur_game_state, next_game_state)
    /\ next_game_state' = "Unchanged"
    /\ cur_anim_state' = ApplyNextState(cur_anim_state, next_anim_state)
    /\ next_anim_state' = "Unchanged"
    /\ IF cur_game_state = "Animating" /\ cur_game_state' = "Playing"
       THEN fresh_kill' = FALSE
       ELSE UNCHANGED fresh_kill
    /\ NoQuery
    /\ UNCHANGED <<fixed_ran, fixed_ticks, update_ran, reset_run, kill_events,
                   transitions, ev_reset_cond, ev_reset_kill, levelVars, playerVars,
                   panicked, rolled_back, old_color, kill_outcome>>

(* ------------------- FixedUpdate: simulation and kill ------------------ *)

\* Mutant: every intersecting hazard sends an event.
KillsSentPerHazard(hits) == Cardinality(hits)

\* kill.rs:158-163: the first intersecting hazard sends one event and returns.
KillsSent(hits) == IF hits = {} THEN 0 ELSE 1

kill_player_on_hurt_intersection ==
    /\ FixedStep("kill_player_on_hurt_intersection", transitions)
    /\ IF SimulationRuns
       THEN /\ QueryRapierAndPlayer
            /\ \E hits \in SUBSET HurtMarkers :
                 /\ hits # {} => CanRaiseKill
                 /\ IF rapier_found' /\ player_found'
                    THEN /\ kill_events' = kill_events + KillsSent(hits)
                         /\ fresh_kill' = (fresh_kill \/ hits # {})
                    ELSE UNCHANGED <<kill_events, fresh_kill>>
       ELSE NoQuery /\ UNCHANGED <<kill_events, fresh_kill>>
    /\ UNCHANGED <<stateVars, ev_reset_cond, ev_reset_kill, levelVars, playerVars,
                   panicked, rolled_back, old_color, kill_outcome>>

\* Mutant: every intersecting shard marks its colour temporary.
MarksTemporaryAlways(allowed_colors, color) == TRUE

\* shard.rs:135: only a colour that is not allowed is marked temporary.
MarksTemporary(allowed_colors, color) == ~allowed_colors[color]

\* Mutant: a shard is hidden only when it grants its colour.
TouchShardHidesOnGrant(st, shard) ==
    LET color == light_color(shard)
        marks == MarksTemporary(st.allowed_colors, color)
    IN  [allowed_colors |-> IF marks THEN [st.allowed_colors EXCEPT ![color] = TRUE]
                            ELSE st.allowed_colors,
         shard_mods |-> IF marks THEN [st.shard_mods EXCEPT ![color] = TRUE]
                        ELSE st.shard_mods,
         visibility |-> IF marks THEN [st.visibility EXCEPT ![shard] = "Hidden"]
                        ELSE st.visibility]

\* shard.rs:134-143: the body of the loop for one intersecting shard.
TouchShard(st, shard) ==
    LET color == light_color(shard)
        marks == MarksTemporary(st.allowed_colors, color)
    IN  [allowed_colors |-> IF marks THEN [st.allowed_colors EXCEPT ![color] = TRUE]
                            ELSE st.allowed_colors,
         shard_mods |-> IF marks THEN [st.shard_mods EXCEPT ![color] = TRUE]
                        ELSE st.shard_mods,
         visibility |-> [st.visibility EXCEPT ![shard] = "Hidden"]]

\* shard.rs:133: the loop over q_shards, in the query's order.
RECURSIVE IntersectShards(_, _, _)
IntersectShards(st, shards, touching) ==
    IF shards = {} THEN st
    ELSE LET shard == CHOOSE sh \in shards : TRUE
             next == IF shard \in touching THEN TouchShard(st, shard) ELSE st
         IN  IntersectShards(next, shards \ {shard}, touching)

on_player_intersect_shard ==
    /\ FixedStep("on_player_intersect_shard", transitions)
    /\ IF SimulationRuns
       THEN /\ QueryRapierAndPlayer
            /\ IF rapier_found' /\ player_found'
               THEN \E touching \in SUBSET CrystalShards :
                      LET st == IntersectShards(
                                    [allowed_colors |-> current_level.allowed_colors,
                                     shard_mods |-> shard_mods,
                                     visibility |-> visibility],
                                    CrystalShards, touching)
                      IN  /\ current_level' =
                               [current_level EXCEPT !.allowed_colors = st.allowed_colors]
                          /\ shard_mods' = st.shard_mods
                          /\ visibility' = st.visibility
               ELSE UNCHANGED levelVars
       ELSE NoQuery /\ UNCHANGED levelVars
    /\ UNCHANGED <<stateVars, kill_events, ev_reset_cond, ev_reset_kill, playerVars,
                   panicked, fresh_kill, rolled_back, old_color, kill_outcome>>

\* Mutant: start_kill_animation without its early return.
KillIgnoredNever(game_state) == FALSE

\* kill.rs:195-197: the early return of start_kill_animation.
KillIgnored(game_state) == game_state = "Animating"

\* kill.rs:52: on_event::<KillPlayerEvent> reads every new event.
UnreadAfterCondition(n) == 0

\* kill.rs:51-52 and 188-206: on_event::<KillPlayerEvent> reads the new events,
\* and start_kill_animation runs if there was one.
start_kill_animation ==
    LET admitted == kill_events > 0 /\ ~KillIgnored(cur_game_state)
        request == [effect |-> "SlideToBlack", stage |-> "requested"]
    IN  /\ FixedStep("start_kill_animation",
                     IF admitted THEN Append(transitions, request) ELSE transitions)
        /\ kill_events' = UnreadAfterCondition(kill_events)
        /\ fresh_kill' = (fresh_kill /\ UnreadAfterCondition(kill_events) > 0)
        /\ kill_outcome' = IF kill_events = 0 THEN "none"
                           ELSE IF admitted THEN "started" ELSE "ignored"
        /\ NoQuery
        /\ IF admitted
           THEN /\ next_game_state' = "Animating"
                /\ next_anim_state' = "Respawn"
           ELSE UNCHANGED <<next_game_state, next_anim_state>>
        /\ UNCHANGED <<cur_game_state, cur_anim_state, ev_reset_cond, ev_reset_kill,
                       levelVars, playerVars, panicked, rolled_back, old_color>>

\* The fixed main loop has run its ticks of this frame; Update follows.
RunUpdate ==
    /\ ~panicked
    /\ schedule = "FixedUpdate"
    /\ fixed_ran = {}
    /\ schedule' = "Update"
    /\ NoQuery
    /\ UNCHANGED <<fixed_ran, fixed_ticks, update_ran, reset_run, stateVars,
                   kill_events, transitions, ev_reset_cond, ev_reset_kill, levelVars,
                   playerVars, panicked, fresh_kill, rolled_back, old_color,
                   kill_outcome>>

(* ----------------------- Update: input and resets ---------------------- *)

\* kill.rs:35-37 and 58-60: R was just pressed while GameState::Playing.
quick_reset ==
    /\ UpdateStep("quick_reset")
    /\ cur_game_state = "Playing"
    /\ CanRaiseKill
    /\ kill_events' = kill_events + 1
    /\ fresh_kill' = TRUE
    /\ NoQuery
    /\ UNCHANGED <<reset_run, stateVars, transitions, ev_reset_cond, ev_reset_kill,
                   levelVars, playerVars, panicked, rolled_back, old_color, kill_outcome>>

\* LevelSystems::Reset runs in the frames that saw a new ResetLevel event.
ResetCondition ==
    /\ ~panicked
    /\ schedule = "Update"
    /\ reset_run = "pending"
    /\ reset_run' = IF ev_reset_cond # {} THEN "run" ELSE "skip"
    /\ ev_reset_cond' = {}
    /\ NoQuery
    /\ UNCHANGED <<schedule, fixed_ran, fixed_ticks, update_ran, stateVars,
                   kill_events, transitions, ev_reset_kill, levelVars, playerVars,
                   panicked, fresh_kill, rolled_back, old_color, kill_outcome>>

\* Mutant: the rollback clears the flags and leaves allowed_colors as it is.
RollbackAllowedKeeps(allowed_colors, mods) == allowed_colors

\* shard.rs:111-117: a temporary colour is no longer allowed.
RollbackAllowed(allowed_colors, mods) ==
    [c \in LightColor |-> IF mods[c] THEN FALSE ELSE allowed_colors[c]]

\* shard.rs:116: every flag is cleared.
RollbackMods(mods) == [c \in LightColor |-> FALSE]

reset_shards ==
    /\ ResetStep("reset_shards")
    /\ visibility' = [s \in CrystalShards |-> "Visible"]
    /\ current_level' =
         [current_level EXCEPT
            !.allowed_colors = RollbackAllowed(current_level.allowed_colors, shard_mods)]
    /\ shard_mods' = RollbackMods(shard_mods)
    /\ rolled_back' = {c \in LightColor : shard_mods[c]}
    /\ NoQuery
    /\ UNCHANGED <<stateVars, kill_events, transitions, ev_reset_cond, ev_reset_kill,
                   playerVars, panicked, fresh_kill, old_color, kill_outcome>>

\* Mutant: the old colour is restored without asking the level.
PreservedColorAlways(color, allowed_colors) == color

\* kill.rs:137-141: the old colour is kept if the level allows it.
PreservedColor(color, allowed_colors) ==
    IF color # NoColor /\ allowed_colors[color] THEN color ELSE NoColor

\* kill.rs:40-41: reset_player_on_level_switch runs after the shard rollback.
reset_player_on_level_switch ==
    /\ ResetStep("reset_player_on_level_switch")
    /\ "reset_shards" \in update_ran
    /\ QueryPlayer
    /\ IF player_found'
       THEN /\ old_color' = current_color
            /\ current_color' = PreservedColor(current_color, current_level.allowed_colors)
       ELSE UNCHANGED <<old_color, current_color>>
    /\ UNCHANGED <<stateVars, kill_events, transitions, ev_reset_cond, ev_reset_kill,
                   levelVars, translation, camera_moves, panicked, fresh_kill,
                   rolled_back, kill_outcome>>

\* Mutant: the first start flag is taken, whatever its level.
MatchingFlagsAnyLevel(level_iid) == StartFlags

\* kill.rs:100-101: the start flags of the current level.
MatchingFlags(level_iid) == {flag \in StartFlags : flag.level_iid = level_iid}

\* Mutant: the player is put on the flag, with no epsilon added.
RespawnTranslationOnFlag(flag) == [x |-> flag.world_x, y |-> -flag.world_y]

\* kill.rs:102-106: the flag's position, a little above the floor.
RespawnTranslation(flag) ==
    [x |-> flag.world_x, y |-> (-flag.world_y) + LYRA_RESPAWN_EPSILON]

Clamp(v, lo, hi) == IF v < lo THEN lo ELSE IF v > hi THEN hi ELSE v

\* The camera position for a player position, kept inside the level's box.
camera_position_from_level(level_box, pos) ==
    [x |-> Clamp(pos.x, level_box.min_x, level_box.max_x),
     y |-> Clamp(pos.y, level_box.min_y, level_box.max_y)]

\* kill.rs:89: the position of the first ResetLevel::Respawn among the unread
\* events, 0 if there is none.
FirstRespawn(events) ==
    IF \E i \in DOMAIN events : events[i].reason = "Respawn"
    THEN CHOOSE i \in DOMAIN events :
           /\ events[i].reason = "Respawn"
           /\ \A j \in 1..(i - 1) : events[j].reason # "Respawn"
    ELSE 0

\* kill.rs:89: any() stops reading at the first match; the events behind it
\* stay unread.
UnreadAfterAny(events) ==
    IF FirstRespawn(events) = 0 THEN <<>>
    ELSE SubSeq(events, FirstRespawn(events) + 1, Len(events))

\* Mutant: respawn placement goes on without the player.
reset_player_on_kill_without_player ==
    /\ ResetStep("reset_player_on_kill")
    /\ ev_reset_kill' = UnreadAfterAny(ev_reset_kill)
    /\ IF FirstRespawn(ev_reset_kill) # 0 THEN QueryPlayer ELSE NoQuery
    /\ IF FirstRespawn(ev_reset_kill) = 0
       THEN UNCHANGED <<translation, camera_moves, panicked>>
       ELSE IF MatchingFlags(current_level.level_iid) = {}
       THEN /\ panicked' = TRUE
            /\ UNCHANGED <<translation, camera_moves>>
       ELSE \E flag \in MatchingFlags(current_level.level_iid) :
              /\ translation' = RespawnTranslation(flag)
              /\ camera_moves' =
                   Append(camera_moves,
                          [to |-> camera_position_from_level(
                                      current_level.level_box, RespawnTranslation(flag)),
                           variant |-> "Instant"])
              /\ UNCHANGED panicked
    /\ UNCHANGED <<stateVars, kill_events, transitions, ev_reset_cond, levelVars,
                   current_color, fresh_kill, rolled_back, old_color, kill_outcome>>

reset_player_on_kill ==
    /\ ResetStep("reset_player_on_kill")
    /\ ev_reset_kill' = UnreadAfterAny(ev_reset_kill)
    /\ IF FirstRespawn(ev_reset_kill) # 0 THEN QueryPlayer ELSE NoQuery
    /\ IF FirstRespawn(ev_reset_kill) = 0 \/ ~player_found'
       THEN UNCHANGED <<translation, camera_moves, panicked>>
       ELSE IF MatchingFlags(current_level.level_iid) = {}
       THEN /\ panicked' = TRUE
            /\ UNCHANGED <<translation, camera_moves>>
       ELSE \E flag \in MatchingFlags(current_level.level_iid) :
              /\ translation' = RespawnTranslation(flag)
              /\ camera_moves' =
                   Append(camera_moves,
                          [to |-> camera_position_from_level(
                                      current_level.level_box, RespawnTranslation(flag)),
                           variant |-> "Instant"])
              /\ UNCHANGED panicked
    /\ UNCHANGED <<stateVars, kill_events, transitions, ev_reset_cond, levelVars,
                   current_color, fresh_kill, rolled_back, old_color, kill_outcome>>

(* -------------------- Update: the transition driver ------------------- *)

\* The driver completes the transitions in the order they were begun, each
\* once, after its duration: it then runs the callback of the request.
TransitionCompletes(effect) ==
    /\ ~panicked
    /\ schedule = "Update"
    /\ transitions # <<>>
    /\ Head(transitions).stage = "elapsed"
    /\ Head(transitions).effect = effect

\* Mutant: the game resumes as soon as the screen is black.
after_slide_to_black_resumes ==
    /\ TransitionCompletes("SlideToBlack")
    /\ transitions' =
         Append(Tail(transitions), [effect |-> "SlideFromBlack", stage |-> "requested"])
    /\ SendResetLevel("Respawn")
    /\ next_game_state' = "Playing"
    /\ NoQuery
    /\ UNCHANGED <<frameVars, cur_game_state, cur_anim_state, next_anim_state,
                   kill_events, levelVars, playerVars, panicked, fresh_kill,
                   rolled_back, old_color, kill_outcome>>

\* Mutant: the first callback rolls the shard effects back by itself.
after_slide_to_black_rolls_back ==
    /\ TransitionCompletes("SlideToBlack")
    /\ transitions' =
         Append(Tail(transitions), [effect |-> "SlideFromBlack", stage |-> "requested"])
    /\ SendResetLevel("Respawn")
    /\ current_level' =
         [current_level EXCEPT
            !.allowed_colors = RollbackAllowed(current_level.allowed_colors, shard_mods)]
    /\ shard_mods' = RollbackMods(shard_mods)
    /\ NoQuery
    /\ UNCHANGED <<frameVars, stateVars, kill_events, visibility, playerVars, panicked,
                   fresh_kill, rolled_back, old_color, kill_outcome>>

after_slide_to_black ==
    /\ TransitionCompletes("SlideToBlack")
    /\ transitions' =
         Append(Tail(transitions), [effect |-> "SlideFromBlack", stage |-> "requested"])
    /\ SendResetLevel("Respawn")
    /\ NoQuery
    /\ UNCHANGED <<frameVars, stateVars, kill_events, levelVars, playerVars, panicked,
                   fresh_kill, rolled_back, old_color, kill_outcome>>

\* Mutant: the second callback forgets to resume the game.
after_slide_from_black_forgets ==
    /\ TransitionCompletes("SlideFromBlack")
    /\ transitions' = Tail(transitions)
    /\ NoQuery
    /\ UNCHANGED <<frameVars, stateVars, kill_events, ev_reset_cond, ev_reset_kill,
                   levelVars, playerVars, panicked, fresh_kill,
                   rolled_back, old_color, kill_outcome>>

after_slide_from_black ==
    /\ TransitionCompletes("SlideFromBlack")
    /\ transitions' = Tail(transitions)
    /\ next_game_state' = "Playing"
    /\ NoQuery
    /\ UNCHANGED <<frameVars, cur_game_state, cur_anim_state, next_anim_state,
                   kill_events, ev_reset_cond, ev_reset_kill, levelVars, playerVars,
                   panicked, fresh_kill, rolled_back, old_color, kill_outcome>>

\* The frame ends once the schedules have run; the next one begins.
EndFrame ==
    /\ ~panicked
    /\ schedule = "Update"
    /\ \/ reset_run = "skip"
       \/ reset_run = "run" /\ ResetSystems \subseteq update_ran
    /\ schedule' = "PreUpdate"
    /\ fixed_ticks' = 0
    /\ update_ran' = {}
    /\ reset_run' = "pending"
    /\ transitions' = PickUp(transitions)
    /\ ev_reset_kill' = EventUpdate(ev_reset_kill, fixed_ticks)
    /\ camera_moves' = <<>>
    /\ rolled_back' = {}
    /\ old_color' = NoColor
    /\ NoQuery
    /\ UNCHANGED <<fixed_ran, stateVars, kill_events, ev_reset_cond, levelVars,
                   current_color, translation, panicked, fresh_kill, kill_outcome>>

(* --------------------------- specification ---------------------------- *)

Next ==
    \/ LevelSwitch
    \/ SelectColor
    \/ StateTransition
    \/ kill_player_on_hurt_intersection
    \/ on_player_intersect_shard
    \/ start_kill_animation
    \/ RunUpdate
    \/ quick_reset
    \/ ResetCondition
    \/ reset_shards
    \/ reset_player_on_level_switch
    \/ reset_player_on_kill
    \/ after_slide_to_black
    \/ after_slide_from_black
    \/ EndFrame

Spec == Init /\ [][Next]_vars

\* The driver runs the callback of a transition whose duration is over.
TransitionCallback == after_slide_to_black \/ after_slide_from_black

\* The steps that bear on the kill cycle: every step but colour selection,
\* which writes the active colour alone; no guard reads the active colour, and
\* no step but the inventory rollback uses it, for the active colour it
\* leaves. A behaviour of Spec with its colour selections left out is a
\* behaviour of these steps that agrees with it on every other variable.
CycleNext ==
    \/ LevelSwitch
    \/ StateTransition
    \/ kill_player_on_hurt_intersection
    \/ on_player_intersect_shard
    \/ start_kill_animation
    \/ RunUpdate
    \/ quick_reset
    \/ ResetCondition
    \/ reset_shards
    \/ reset_player_on_level_switch
    \/ reset_player_on_kill
    \/ after_slide_to_black
    \/ after_slide_from_black
    \/ EndFrame

\* The frame loop never stops, the fixed main loop catches up with the clock
\* (a tick begins with its first system), and the driver, once a transition's
\* duration is over, runs its callback.
Fairness ==
    /\ WF_vars(CycleNext)
    /\ SF_vars(on_player_intersect_shard)
    /\ SF_vars(TransitionCallback)

FairSpec == Init /\ [][CycleNext]_vars /\ Fairness

(* ------------------------- reading the steps -------------------------- *)

\* The step is a run of the FixedUpdate system `name`.
RanFixed(name) ==
    /\ schedule = "FixedUpdate"
    /\ name \notin fixed_ran
    /\ \/ name \in fixed_ran'
       \/ fixed_ran \cup {name} = FixedSystems /\ fixed_ticks' = fixed_ticks + 1

\* The step is a run of the Update system `name`.
RanUpdate(name) == name \notin update_ran /\ name \in update_ran'

\* The SlideToBlack requests among the transitions ts.
ToBlackRequests(ts) == Len(SelectSeq(ts, LAMBDA t : t.effect = "SlideToBlack"))

\* A step in which the driver completes a transition of the effect: the oldest
\* transition is taken off, and the callback may have begun another.
Completes(effect) ==
    /\ schedule = "Update"
    /\ schedule' = "Update"
    /\ transitions # <<>>
    /\ transitions' # transitions
    /\ Head(transitions) = [effect |-> effect, stage |-> "elapsed"]
    /\ \/ transitions' = Tail(transitions)
       \/ /\ Len(transitions') = Len(transitions)
          /\ SubSeq(transitions', 1, Len(transitions) - 1) = Tail(transitions)

\* The SlideFromBlack requests among the transitions ts.
FromBlackRequests(ts) == Len(SelectSeq(ts, LAMBDA t : t.effect = "SlideFromBlack"))

\* The unread events hold a ResetLevel::Respawn.
RespawnUnread(events) == \E i \in DOMAIN events : events[i].reason = "Respawn"

(* -------------------------------- claims ------------------------------ *)

\* C1: a kill request delivered to start_kill_animation while game_phase is
\* Animating is a no-op: the run reads the request, issues no transition request
\* (so starts no further phase1 -> phase2 sequence) and changes neither
\* game_phase nor animation_phase, current or requested.
C1_KillWhileAnimatingIsNoOp ==
    [][(RanFixed("start_kill_animation") /\ cur_game_state = "Animating")
          => /\ Len(transitions') = Len(transitions)
             /\ ToBlackRequests(transitions') = ToBlackRequests(transitions)
             /\ UNCHANGED <<cur_game_state, next_game_state, cur_anim_state,
                            next_anim_state>>]_vars

\* C1 witness: start_kill_animation has run on a kill request while Animating.
C1_Witness == kill_outcome = "ignored" /\ cur_game_state = "Animating"

\* C2: between game_phase leaving Playing and returning to Playing exactly one
\* SlideToBlack request is issued: no second run of start_kill_animation issues
\* one, also not on a later fixed tick before the change to Animating is applied.
C2_OneSlideToBlackPerKill ==
    [][(/\ RanFixed("start_kill_animation")
        /\ cur_game_state = "Animating" \/ next_game_state = "Animating")
          => ToBlackRequests(transitions') = ToBlackRequests(transitions)]_vars

\* C3: a run of reset_shards leaves is_temporary false for every colour, and
\* allowed false for every colour whose flag was true before it.
C3_RollbackComplete ==
    [][RanUpdate("reset_shards")
          => /\ \A c \in LightColor : ~shard_mods'[c]
             /\ \A c \in LightColor :
                  shard_mods[c] => ~current_level'.allowed_colors[c]]_vars

\* C3 witness: the rollback of a respawn reset (the game is Animating) has
\* revoked a temporary colour.
C3_Witness ==
    /\ "reset_shards" \in update_ran
    /\ cur_game_state = "Animating"
    /\ \E c \in rolled_back : ~shard_mods[c] /\ ~current_level.allowed_colors[c]

C5_TriggerIdempotent ==
    [][RanFixed("on_player_intersect_shard")
          => \A c \in LightColor :
               current_level.allowed_colors[c]
                 => /\ current_level'.allowed_colors[c]
                    /\ shard_mods'[c] = shard_mods[c]]_vars

\* C5 witness: the shard of a colour the level allows by itself has been
\* touched (it is hidden), and the colour is not marked temporary.
C5_Witness ==
    \E s \in CrystalShards :
       /\ visibility[s] = "Hidden"
       /\ BaselineAllowed(current_level.level_iid)[light_color(s)]
       /\ current_level.allowed_colors[light_color(s)]
       /\ ~shard_mods[light_color(s)]

\* C6: a respawn reset handled with the player present and a start flag of the
\* current level puts the player on that flag raised by the epsilon (the flag
\* at (100, -50) gives (100, -48)) and sends exactly one instant camera move, to
\* that position clipped to the level's box.
C6_RespawnPlacement ==
    [][(/\ RanUpdate("reset_player_on_kill")
        /\ \E i \in DOMAIN ev_reset_kill : ev_reset_kill[i].reason = "Respawn"
        /\ player_found'
        /\ \E f \in StartFlags : f.level_iid = current_level.level_iid)
          => \E f \in StartFlags :
               /\ f.level_iid = current_level.level_iid
               /\ translation' = [x |-> f.world_x, y |-> 2 - f.world_y]
               /\ f.world_x = 100 /\ f.world_y = 50 => translation' = [x |-> 100, y |-> -48]
               /\ camera_moves' =
                    Append(camera_moves,
                           [to |-> camera_position_from_level(
                                       current_level.level_box, translation'),
                            variant |-> "Instant"])]_vars

\* C6 witness: the player stands at (100, -48) and the one camera move of the
\* frame goes to that position clipped to the box of Level_A.
C6_Witness ==
    /\ "reset_player_on_kill" \in update_ran
    /\ translation = [x |-> 100, y |-> -48]
    /\ camera_moves = <<[to |-> [x |-> 90, y |-> -48], variant |-> "Instant"]>>

\* C7: a respawn reset handled with the player present and no start flag of the
\* current level ends in the panic, with the player's position unchanged and no
\* camera move sent.
C7_FatalPath ==
    [][(/\ RanUpdate("reset_player_on_kill")
        /\ \E i \in DOMAIN ev_reset_kill : ev_reset_kill[i].reason = "Respawn"
        /\ player_found'
        /\ ~\E f \in StartFlags : f.level_iid = current_level.level_iid)
          => /\ panicked'
             /\ translation' = translation
             /\ camera_moves' = camera_moves]_vars

\* C7 witness: the process has panicked in the level without a start flag.
C7_Witness ==
    /\ panicked
    /\ current_level.level_iid = "Level_B"
    /\ "reset_player_on_kill" \in update_ran
    /\ camera_moves = <<>>

C10_RejectedKillIsDropped ==
    [][RanFixed("start_kill_animation")
          => /\ cur_game_state = "Animating" => kill_events' = 0
             /\ ToBlackRequests(transitions') > ToBlackRequests(transitions)
                  => fresh_kill]_vars

\* C11: ResetLevel::Respawn is sent only by the callback of a completed
\* SlideToBlack, once per completion and in the step that begins the
\* SlideFromBlack; the reset systems that handle it (the shard rollback and the
\* respawn placement) run while game_phase is Animating.
C11_RespawnBroadcastOncePerSequence ==
    [][/\ Len(ev_reset_kill') > Len(ev_reset_kill)
            => /\ Completes("SlideToBlack")
               /\ FromBlackRequests(transitions') = FromBlackRequests(transitions) + 1
       /\ (Completes("SlideToBlack") /\ transitions' # transitions)
            => Len(ev_reset_kill') = Len(ev_reset_kill) + 1
       /\ (/\ RanUpdate("reset_player_on_kill") \/ RanUpdate("reset_shards")
           /\ RespawnUnread(ev_reset_kill))
            => cur_game_state = "Animating"]_vars

\* C12: in the frame that handles a reset, reset_shards runs before
\* reset_player_on_level_switch and both run before reset_player_on_kill, in
\* every order the schedule allows.
C12_ResetConsumerOrder ==
    [][/\ RanUpdate("reset_player_on_level_switch") => "reset_shards" \in update_ran
       /\ RanUpdate("reset_player_on_kill")
            => {"reset_shards", "reset_player_on_level_switch"} \subseteq update_ran]_vars

\* C13: in every reachable state a colour marked temporary is allowed in the
\* current level.
C13_TemporaryImpliesAllowed ==
    \A c \in LightColor : shard_mods[c] => current_level.allowed_colors[c]

\* A reset has settled: the three reset systems have run in this frame.
ResetSettled == reset_run = "run" /\ ResetSystems \subseteq update_ran

C15_BenignAbsence ==
    [][/\ (/\ RanFixed("kill_player_on_hurt_intersection")
           /\ ~(rapier_found' /\ player_found'))
            => kill_events' = kill_events
       /\ (/\ RanFixed("on_player_intersect_shard")
           /\ ~(rapier_found' /\ player_found'))
            => UNCHANGED <<current_level, shard_mods, visibility>>
       /\ (RanUpdate("reset_player_on_level_switch") /\ ~player_found')
            => UNCHANGED <<current_color, current_level>>
       /\ (RanUpdate("reset_player_on_kill") /\ ~player_found')
            => /\ UNCHANGED <<translation, camera_moves>>
               /\ ~panicked']_vars

\* C15 witness: respawn placement has just run on a respawn reset in a level
\* without a start flag, found no player, and the process goes on.
C15_Witness ==
    /\ schedule = "Update"
    /\ "reset_player_on_kill" \in update_ran
    /\ "reset_player_on_level_switch" \notin update_ran
    /\ ~player_found
    /\ MatchingFlags(current_level.level_iid) = {}
    /\ camera_moves = <<>>
    /\ ~panicked

\* C16: one run of the hazard check sends at most one kill event, however many
\* hazards intersect the player: it sends exactly one in a run that found an
\* intersecting hazard (the run that makes the unread kill signal fresh), and
\* none in a run that found no hazard or resolved no player or context.
C16_HazardShortCircuit ==
    [][RanFixed("kill_player_on_hurt_intersection")
          => /\ kill_events' \in {kill_events, kill_events + 1}
             /\ (~fresh_kill /\ fresh_kill') => kill_events' = kill_events + 1
             /\ ~fresh_kill' => kill_events' = kill_events
             /\ ~(rapier_found' /\ player_found') => kill_events' = kill_events
             /\ ~SimulationRuns => kill_events' = kill_events]_vars

\* C16 witness: the hazard checks of both ticks of a frame found a hazard, each
\* after start_kill_animation had read the events before it: two events are
\* unread, one of each check.
C16_Witness ==
    /\ schedule = "FixedUpdate"
    /\ fixed_ticks = 1
    /\ fixed_ran = {"on_player_intersect_shard", "kill_player_on_hurt_intersection"}
    /\ kill_events = 2
    /\ rapier_found /\ player_found

\* The step in which the condition of LevelSystems::Reset lets the set run for
\* ResetLevel events of the reasons in `reasons`.
ResetBegins(reasons) ==
    /\ reset_run = "pending"
    /\ reset_run' = "run"
    /\ ev_reset_cond = reasons

\* C17: reset_player_on_kill moves the player, sends a camera move or panics
\* only if it reads a ResetLevel::Respawn, and a reset that begins for
\* ResetLevel::Switching alone finds no ResetLevel::Respawn left for it to read;
\* reset_shards does the same for either reason: every flag cleared, every
\* shard visible, the flagged colours no longer allowed.
C17_ResetReasonDiscrimination ==
    [][/\ (RanUpdate("reset_player_on_kill") /\ ~RespawnUnread(ev_reset_kill))
            => UNCHANGED <<translation, camera_moves, panicked>>
       /\ ResetBegins({"Switching"}) => ~RespawnUnread(ev_reset_kill)
       /\ RanUpdate("reset_shards")
            => /\ \A c \in LightColor : ~shard_mods'[c]
               /\ \A s \in CrystalShards : visibility'[s] = "Visible"
               /\ \A c \in LightColor :
                    current_level'.allowed_colors[c]
                      = (current_level.allowed_colors[c] /\ ~shard_mods[c])]_vars

\* C18: a run of on_player_intersect_shard hides the shards it finds touched,
\* whether or not it grants their colour, and shows none; a shard, once hidden,
\* stays hidden in every step but a run of reset_shards; after a run of
\* reset_shards every shard is visible.
C18_ShardVisibility ==
    [][/\ RanFixed("on_player_intersect_shard")
            => /\ \A s \in CrystalShards :
                    /\ visibility[s] = "Hidden" => visibility'[s] = "Hidden"
                    /\ shard_mods'[light_color(s)] # shard_mods[light_color(s)]
                         => visibility'[s] = "Hidden"
               /\ \A touching \in SUBSET CrystalShards :
                    \A s \in touching :
                       IntersectShards([allowed_colors |-> current_level.allowed_colors,
                                        shard_mods |-> shard_mods,
                                        visibility |-> visibility],
                                       CrystalShards, touching).visibility[s] = "Hidden"
       /\ \A s \in CrystalShards :
            (visibility[s] = "Hidden" /\ visibility'[s] # "Hidden")
              => RanUpdate("reset_shards")
       /\ RanUpdate("reset_shards")
            => \A s \in CrystalShards : visibility'[s] = "Visible"]_vars

\* C18 witness: a reset has shown again the shard whose colour it revoked.
C18_Witness ==
    \E s \in CrystalShards :
       /\ "reset_shards" \in update_ran
       /\ light_color(s) \in rolled_back
       /\ visibility[s] = "Visible"

\* C19: once a reset has settled, allowed_colors is the author-defined baseline
\* of the current level: no colour the level allows by itself has been
\* revoked, also not by a temporary flag left from the level before.
C19_BaselineRestoredAfterReset ==
    ResetSettled
        => \A c \in LightColor :
             current_level.allowed_colors[c] = BaselineAllowed(current_level.level_iid)[c]

\* What the kill pipeline is said to leave alone: the player's position, the
\* active colour, the allowed colours and the temporary flags.
KillFrame == <<translation, current_color, current_level.allowed_colors, shard_mods>>

\* C20: start_kill_animation and the two callbacks leave the player's position,
\* the active colour, allowed_colors and the temporary flags unchanged, and so
\* does every step taken while a SlideToBlack is under way, that is between
\* the start of a kill sequence and its ResetLevel::Respawn.
C20_KillPipelineFrame ==
    [][/\ (\/ RanFixed("start_kill_animation")
           \/ Completes("SlideToBlack")
           \/ Completes("SlideFromBlack"))
            => UNCHANGED KillFrame
       /\ ToBlackRequests(transitions) > 0 => UNCHANGED KillFrame]_vars

\* C20 (amended): the three operations of the pipeline themselves leave those
\* values unchanged, and while the game is Animating only the systems of
\* LevelSystems::Reset change them.
C20_KillPipelineFrameWhileAnimating ==
    [][/\ (\/ RanFixed("start_kill_animation")
           \/ Completes("SlideToBlack")
           \/ Completes("SlideFromBlack"))
            => UNCHANGED KillFrame
       /\ (cur_game_state = "Animating" /\ KillFrame' # KillFrame)
            => \E name \in ResetSystems : RanUpdate(name)]_vars

\* C20 witness: the first callback has run in this frame (its SlideFromBlack is
\* still a request) with a colour active and a temporary flag set, and no reset
\* system has run yet.
C20_Witness ==
    /\ cur_game_state = "Animating"
    /\ schedule = "Update"
    /\ transitions = <<[effect |-> "SlideFromBlack", stage |-> "requested"]>>
    /\ update_ran \cap ResetSystems = {}
    /\ current_color # NoColor
    /\ \E c \in LightColor : shard_mods[c] /\ current_level.allowed_colors[c]

====
